---- MODULE Spec2Model ----
(***************************************************************************)
(* A model of UdemyService (src/unnamed/part_000): the response cache       *)
(* behind #fetchUrl / fetchLoadMore, the stream source resolver            *)
(* _convertToStreams, the course listing merge and the course content      *)
(* orchestrator fetchCourseContent.                                        *)
(*                                                                         *)
(* Each part of the service has its own specification over the module's    *)
(* variables; the variables of the other parts stay at their initial       *)
(* values:                                                                 *)
(*   SpecStreams  _convertToStreams                                        *)
(*   SpecCache    #fetchUrl, fetchLoadMore, fetchProfile                   *)
(*   SpecCourses  fetchCourses, fetchSearchCourses                         *)
(*   SpecContent  fetchCourseContent                                       *)
(***************************************************************************)
EXTENDS Integers, Sequences, FiniteSets, TLC

VARIABLES
    \* ---- _convertToStreams (one invocation) ----
    streamUrlsGiven, \* FALSE: the streamUrls argument is undefined / null
    streamUrls,      \* the streamUrls argument (a list of descriptors)
    encryptedHint,   \* the isEncrypted argument
    isEncrypted,     \* the local isEncrypted after line 102
    streams,         \* the local streams after line 104
    sources,         \* the local sources object: key -> [type, url]
    minQuality,      \* the local running minimum
    maxQuality,      \* the local running maximum
    loads,           \* index of streams -> "none" | "pending" | "done" | "failed"
    yielded,         \* the items the playlists loaded so far have yielded
    loadCalls,       \* number of loadPlaylist() invocations
    convPc,          \* "start" | "awaiting" | "resolved" | "rejected"
    convResult,      \* the value the promise resolved with
    convError,       \* the error the promise rejected with
    \* ---- the response cache behind #fetchUrl / fetchLoadMore ----
    cache,           \* #cache: url -> [v, t, auth] (auth: the token it was fetched with)
    now,             \* Date.now(), in seconds
    timeout,         \* #timeout
    headerAuth,      \* #headerAuth: the bearer token, or NoToken
    calls,           \* call id -> the state of that cached fetch
    requests,        \* number of axios requests issued, per url
    \* ---- fetchCourses / fetchSearchCourses (one invocation) ----
    listPc,          \* "idle" | "awaiting" | "returned" | "threw"
    listArgs,        \* the arguments of the invocation
    listResult,      \* the value it returned
    \* ---- fetchCourseContent (one invocation) ----
    contPc,          \* "idle" | "paging" | "fallback" | "hydrating" | "preparing"
                     \* | "returned" | "threw"
    contArgs,        \* the arguments of the invocation
    contUrl,         \* the local url
    contentData,     \* the local contentData
    loadContent,     \* the local loadContent
    prep,            \* item index -> the state of its _prepareStreamSource
    contResult,      \* the value the invocation returned
    contError,       \* the error it threw
    fetchLog,        \* the fetches it made through #fetchUrl, in order
    retrieved,       \* contentData as retrieved, before any repair
    pageStatus       \* the HTTP status a page fetch failed with, 0 if none did

streamVars == <<streamUrlsGiven, streamUrls, encryptedHint, isEncrypted, streams,
                sources, minQuality, maxQuality, loads, yielded, loadCalls,
                convPc, convResult, convError>>

cacheVars == <<cache, now, timeout, headerAuth, calls, requests>>

listVars == <<listPc, listArgs, listResult>>

contentVars == <<contPc, contArgs, contUrl, contentData, loadContent, prep,
                 contResult, contError, fetchLog, retrieved, pageStatus>>

vars == <<streamVars, cacheVars, listVars, contentVars>>

----------------------------------------------------------------------------
(* Bounds of the model *)

\* longest descriptor list passed to _convertToStreams
MaxDescriptors == 3
\* longest playlist the playlist resolver yields
MaxPlaylist == 2
\* number of cached fetches one behaviour starts
MaxCalls == 2
\* number of times the clock advances
MaxAdvances == 3
\* longest results list of a course listing response
MaxResults == 1
\* number of curriculum items the server holds for one course
MaxItems == 2
\* number of pages the server splits a curriculum into
MaxPages == 2

----------------------------------------------------------------------------
(* Values *)

\* Number.MAX_SAFE_INTEGER / Number.MIN_SAFE_INTEGER, the initial running
\* bounds. TLC's integers are 32 bits wide, so the model uses the 32-bit
\* extremes; every quality of the model lies strictly between them, as every
\* real quality lies strictly between the 53-bit ones.
MAX_SAFE_INTEGER == 2147483647
MIN_SAFE_INTEGER == -2147483647

DashType == "application/dash+xml"
Mp4Type == "video/mp4"

\* JavaScript null, as the value of minQuality / maxQuality
Null == "null"

NoError == [name |-> "", message |-> ""]
NoResult == [minQuality |-> Null, maxQuality |-> Null, isEncrypted |-> FALSE,
             sources |-> <<>>]

\* Error objects made by _error(name, message)
_error(name, message) == [name |-> name, message |-> message]

----------------------------------------------------------------------------
(* Inputs of _convertToStreams *)

Types == {Mp4Type, DashType}
Labels == {"360", "720", "Auto", "hd"}
PlainUrls == {"https://cdn/a"}
MarkedUrls == {"https://cdn/encrypted-files/c"}
Urls == PlainUrls \cup MarkedUrls

\* line 101: (v.file || v.src).includes("/encrypted-files")
IncludesMarker(url) == url \in MarkedUrls

\* a descriptor; url stands for (video.file || video.src)
Descriptors == [type : Types, label : Labels, url : Urls]

SeqsUpTo(S, n) == UNION {[1..k -> S] : k \in 0..n}

\* what the playlist resolver may yield: items {quality, url}
PlaylistQualities == {360, 1080}
PlaylistUrls == {"https://cdn/p", "https://cdn/q"}
PlaylistItems == [quality : PlaylistQualities, url : PlaylistUrls]
Playlists == SeqsUpTo(PlaylistItems, MaxPlaylist)

\* String.prototype.toLowerCase on the labels of the model
ToLowerCase(s) == IF s = "Auto" THEN "auto" ELSE s

\* isNaN(parseInt(quality, 10)) on the lower-cased labels of the model
ParseIntIsNaN(quality) == quality \notin {"360", "720"}

\* parseInt(quality, 10) where it is a number
ParseInt(quality) ==
    CASE quality = "360" -> 360
      [] quality = "720" -> 720

\* Number.prototype.toString on the numbers of the model
NumToString(n) ==
    CASE n = 360 -> "360"
      [] n = 720 -> "720"
      [] n = 1080 -> "1080"

----------------------------------------------------------------------------
(* The response cache: #cache, #fetchUrl (lines 179-203), fetchLoadMore    *)
(* (lines 210-234), fetchProfile (lines 236-240)                           *)

\* new NodeCache({ stdTTL: 3600 })
StdTTL == 3600
\* constructor(subDomain = "www", httpTimeout = 40000)
DefaultTimeout == 40000
\* the clock advances by half a TTL at a time
ClockStep == StdTTL \div 2

\* JavaScript values are records, so that any two of them can be compared:
\* undefined (what cache.get returns for a key it does not hold), the empty
\* string (the body of an empty response), objects
Undefined == [js |-> "undefined"]
JsNull == [js |-> "null"]
EmptyString == [js |-> "string", chars |-> ""]
JsObject(id) == [js |-> "object", id |-> id]
NoToken == "null"

\* response bodies of the cache specification
Data == {EmptyString, JsObject("r1"), JsObject("r2")}
\* the test  if (cachedData)  on the values of the model
Truthy(v) == v \notin {Undefined, JsNull, EmptyString}

Tokens == {"t1", "t2"}
Timeouts == {DefaultTimeout, 5000}
\* `${urlBase}/api-2.0/contexts/me/?header=True`
ProfileUrl == "https://www.udemy.com/api-2.0/contexts/me/?header=True"
CacheUrls == {ProfileUrl, "https://www.udemy.com/api-2.0/next?page=2"}

CallIds == 1..MaxCalls

\* HTTP statuses a request fails with, and the error axios rejects with
Statuses == {503, 500}
AxiosError(status) ==
    [name |-> "AxiosError", message |-> "Request failed", status |-> status]

IdleCall == [pc |-> "idle", op |-> "", url |-> "", httpTimeout |-> 0,
             entryAtStart |-> "", valueAtStart |-> Undefined, issued |-> 0,
             reqAuth |-> NoToken, reqTimeout |-> 0, result |-> Undefined,
             failure |-> NoError, error |-> NoError, response |-> Undefined,
             inFlight |-> {}, joinAtEnd |-> "", auth |-> NoToken,
             entryAuth |-> NoToken]

\* node-cache: an entry is expired once its t lies before the clock
Expired(c, url, t) == url \in DOMAIN c /\ c[url].t < t
Live(c, url, t) == url \in DOMAIN c /\ ~(c[url].t < t)

\* cache.get(url): the stored value of a live entry, else undefined
CacheGet(c, url, t) == IF Live(c, url, t) THEN c[url].v ELSE Undefined

\* node-cache deletes an expired entry when get finds it
CacheAfterGet(c, url, t) ==
    IF Expired(c, url, t) THEN [k \in DOMAIN c \ {url} |-> c[k]] ELSE c

\* cache.set(url, data): stored with the standard TTL
CacheSet(c, url, data, auth, t) ==
    [k \in DOMAIN c \cup {url} |->
        IF k = url THEN [v |-> data, t |-> t + StdTTL, auth |-> auth] ELSE c[k]]

\* number of axios requests issued for url
Requested(r, url) == IF url \in DOMAIN r THEN r[url] ELSE 0
CountRequest(r, url) ==
    [k \in DOMAIN r \cup {url} |-> IF k = url THEN Requested(r, url) + 1 ELSE r[k]]

CacheIdle ==
    /\ cache = <<>>
    /\ now = 0
    /\ timeout = DefaultTimeout
    /\ headerAuth = NoToken
    /\ calls = [c \in CallIds |-> IdleCall]
    /\ requests = <<>>

\* lines 181-194 (and 212-225): the cache lookup and, on a miss, the axios
\* request with the headers and the timeout of the service. net carries
\* the cache, the calls and the request counts; the result is net after call
\* c has run up to its return or its await.
CachedFetch(net, c, op, url, httpTimeout, auth) ==
    LET cachedData == CacheGet(net.cache, url, now)
        started == [IdleCall EXCEPT !.op = op, !.url = url, !.httpTimeout = httpTimeout,
                        !.entryAtStart = IF Live(net.cache, url, now) THEN "live"
                                         ELSE IF Expired(net.cache, url, now) THEN "expired"
                                         ELSE "none",
                        !.valueAtStart = cachedData,
                        !.auth = auth,
                        !.entryAuth = IF Live(net.cache, url, now)
                                      THEN net.cache[url].auth
                                      ELSE NoToken,
                        !.inFlight = {d \in DOMAIN net.calls \ {c} :
                                         /\ net.calls[d].pc = "waiting"
                                         /\ net.calls[d].url = url}]
    IN  IF Truthy(cachedData)
        THEN [cache |-> CacheAfterGet(net.cache, url, now),
              calls |-> [net.calls EXCEPT ![c] = [started EXCEPT !.pc = "returned",
                                                                 !.result = cachedData]],
              requests |-> net.requests]
        ELSE [cache |-> CacheAfterGet(net.cache, url, now),
              calls |-> [net.calls EXCEPT ![c] = [started EXCEPT !.pc = "waiting",
                                                                 !.issued = 1,
                                                                 !.reqAuth = auth,
                                                                 !.reqTimeout = timeout]],
              requests |-> CountRequest(net.requests, url)]

Net == [cache |-> cache, calls |-> calls, requests |-> requests]

SetNet(net) ==
    /\ cache' = net.cache
    /\ calls' = net.calls
    /\ requests' = net.requests

\* lines 196-198 (and 227-229): the request of call c succeeds; the body is
\* stored and returned
MutResolved(net, c, data) ==
    [cache |-> CacheSet(net.cache, net.calls[c].url, data, net.calls[c].reqAuth, now),
     calls |-> [net.calls EXCEPT ![c].pc = "returned", ![c].response = data,
                                 ![c].result = IF Live(net.cache, net.calls[c].url, now)
                                               THEN net.cache[net.calls[c].url].v
                                               ELSE data],
     requests |-> net.requests]
Resolved(net, c, data) ==
    [cache |-> CacheSet(net.cache, net.calls[c].url, data, net.calls[c].reqAuth, now),
     calls |-> [net.calls EXCEPT ![c].pc = "returned", ![c].response = data,
                                 ![c].result = data],
     requests |-> net.requests]

\* the request of call c, one of the operations of a concurrent join, succeeds
\* while the join is in the state join
ResolvedIn(net, c, data, join) ==
    LET answered == Resolved(net, c, data)
    IN  [answered EXCEPT !.calls[c].joinAtEnd = join]

\* lines 199-202 (and 230-233): the request of call c fails; the error is
\* logged and rethrown
MutRejected(net, c, error) ==
    [cache |-> CacheSet(net.cache, net.calls[c].url, Undefined, net.calls[c].reqAuth, now),
     calls |-> [net.calls EXCEPT ![c].pc = "threw", ![c].failure = error,
                                ![c].error = error],
     requests |-> net.requests]
Rejected(net, c, error) ==
    [cache |-> net.cache,
     calls |-> [net.calls EXCEPT ![c].pc = "threw", ![c].failure = error,
                                ![c].error = error],
     requests |-> net.requests]

StreamsIdle ==
    /\ streamUrlsGiven = FALSE
    /\ streamUrls = <<>>
    /\ encryptedHint = FALSE
    /\ isEncrypted = FALSE
    /\ streams = <<>>
    /\ sources = <<>>
    /\ minQuality = MAX_SAFE_INTEGER
    /\ maxQuality = MIN_SAFE_INTEGER
    /\ loads = <<>>
    /\ yielded = {}
    /\ loadCalls = 0
    /\ convPc = "start"
    /\ convResult = NoResult
    /\ convError = NoError

NoArgs == [op |-> "", keyword |-> "", pageSize |-> 0, isSubscriber |-> FALSE,
           httpTimeout |-> 0]

ListIdle ==
    /\ listPc = "idle"
    /\ listArgs = NoArgs
    /\ listResult = Undefined

NoContentArgs == [contentType |-> "", httpTimeout |-> 0]

ContentIdle ==
    /\ contPc = "idle"
    /\ contArgs = NoContentArgs
    /\ contUrl = Undefined
    /\ contentData = JsNull
    /\ loadContent = FALSE
    /\ prep = <<>>
    /\ contResult = Undefined
    /\ contError = NoError
    /\ fetchLog = <<>>
    /\ retrieved = Undefined
    /\ pageStatus = 0

\* fetchLoadMore(url, httpTimeout), lines 210-225
FetchLoadMore(c, url, httpTimeout) ==
    /\ calls[c].pc = "idle"
    /\ SetNet(CachedFetch(Net, c, "fetchLoadMore", url, httpTimeout, headerAuth))
    /\ UNCHANGED <<now, timeout, headerAuth>>
    /\ UNCHANGED <<streamVars, listVars, contentVars>>

\* fetchProfile(accessToken, httpTimeout), lines 236-240, down to the axios
\* request of #fetchUrl
FetchProfile(c, accessToken, httpTimeout) ==
    /\ calls[c].pc = "idle"
    /\ headerAuth' = accessToken
    /\ SetNet(CachedFetch(Net, c, "fetchProfile", ProfileUrl, httpTimeout, accessToken))
    /\ UNCHANGED <<now, timeout>>
    /\ UNCHANGED <<streamVars, listVars, contentVars>>

\* the axios request of call c succeeds with the body data
AxiosResolve(c, data) ==
    /\ calls[c].pc = "waiting"
    /\ SetNet(Resolved(Net, c, data))
    /\ UNCHANGED <<now, timeout, headerAuth>>
    /\ UNCHANGED <<streamVars, listVars, contentVars>>

\* the axios request of call c fails with the error e
AxiosReject(c, e) ==
    /\ calls[c].pc = "waiting"
    /\ SetNet(Rejected(Net, c, e))
    /\ UNCHANGED <<now, timeout, headerAuth>>
    /\ UNCHANGED <<streamVars, listVars, contentVars>>

\* time passes
Advance ==
    /\ now < MaxAdvances * ClockStep
    /\ now' = now + ClockStep
    /\ UNCHANGED <<cache, timeout, headerAuth, calls, requests>>
    /\ UNCHANGED <<streamVars, listVars, contentVars>>

CacheInit ==
    /\ CacheIdle
    /\ StreamsIdle
    /\ ListIdle
    /\ ContentIdle

CacheNext ==
    \/ \E c \in CallIds, url \in CacheUrls, httpTimeout \in Timeouts :
          FetchLoadMore(c, url, httpTimeout)
    \/ \E c \in CallIds, accessToken \in Tokens, httpTimeout \in Timeouts :
          FetchProfile(c, accessToken, httpTimeout)
    \/ \E c \in CallIds, data \in Data : AxiosResolve(c, data)
    \/ \E c \in CallIds, status \in Statuses : AxiosReject(c, AxiosError(status))
    \/ Advance

SpecCache == CacheInit /\ [][CacheNext]_vars

\* the cached fetch c has been started
Started(c) == calls[c].pc # "idle"

\* C1 (as claimed): a request whose url has an entry within its TTL issues
\* no network call and returns the stored response, whatever the response;
\* a request whose entry has expired issues exactly one network call.
C1_CachedWithinTtl ==
    \A c \in CallIds :
        /\ (Started(c) /\ calls[c].entryAtStart = "live")
              => /\ calls[c].issued = 0
                 /\ calls[c].pc = "returned"
                 /\ calls[c].result = calls[c].valueAtStart
        /\ (Started(c) /\ calls[c].entryAtStart = "expired") => calls[c].issued = 1

\* the calls made for url so far
CallsFor(url) == {c \in CallIds : Started(c) /\ calls[c].url = url}

\* C12: a request that fails leaves the cache as it was and its caller gets
\* the error the request failed with; as long as no request for a url has
\* succeeded, the cache holds no entry for it and every call made for it has
\* issued a network request.
C12_FailureNotCached ==
    /\ [][\A c \in CallIds :
            (calls[c].pc = "waiting" /\ calls'[c].pc = "threw") => cache' = cache]_vars
    /\ [](\A c \in CallIds :
            calls[c].pc = "threw" =>
                /\ calls[c].error # NoError
                /\ calls[c].error = calls[c].failure)
    /\ [](\A url \in CacheUrls :
            (\A c \in CallsFor(url) : calls[c].pc \in {"waiting", "threw"}) =>
                /\ url \notin DOMAIN cache
                /\ \A c \in CallsFor(url) : calls[c].issued = 1)

\* a request failed, and a second call for the same url issued a request
C12_Witness ==
    \E url \in CacheUrls :
        /\ CallsFor(url) = CallIds
        /\ \E c \in CallIds : calls[c].pc = "threw" /\ calls[c].error = AxiosError(500)
        /\ \A c \in CallIds : calls[c].issued = 1
        /\ Requested(requests, url) = MaxCalls
        /\ url \notin DOMAIN cache

\* the call c received the body its own request was answered with
OwnResponse(c) ==
    (calls[c].pc = "returned" /\ calls[c].issued = 1) => calls[c].result = calls[c].response

\* C16: a fetch that starts while another fetch of the same url awaits its
\* response, and finds nothing in the cache, issues a request of its own;
\* each of the two receives the response of its own request; once both have
\* returned, the cache holds one entry for the url, with one of the two
\* responses.
C16_ConcurrentMisses ==
    \A c, d \in CallIds :
        (d \in calls[c].inFlight /\ ~Truthy(calls[c].valueAtStart)) =>
            /\ calls[c].issued = 1
            /\ calls[d].issued = 1
            /\ Requested(requests, calls[c].url) >= 2
            /\ OwnResponse(c)
            /\ OwnResponse(d)
            /\ (calls[c].pc = "returned" /\ calls[d].pc = "returned"
                    /\ CallsFor(calls[c].url) = {c, d}) =>
                  /\ calls[c].url \in DOMAIN cache
                  /\ cache[calls[c].url].v \in {calls[c].response, calls[d].response}

\* two overlapping fetches of one url returned different bodies
C16_Witness ==
    \E c, d \in CallIds :
        /\ d \in calls[c].inFlight
        /\ calls[c].pc = "returned" /\ calls[d].pc = "returned"
        /\ calls[c].result = JsObject("r1")
        /\ calls[d].result = JsObject("r2")
        /\ Requested(requests, calls[c].url) = 2
        /\ cache[calls[c].url].v = JsObject("r1")

\* C14 (as claimed): every network request issued for a call uses the
\* httpTimeout passed to that call as its timeout (the service-wide timeout
\* when none is passed).
C14_TimeoutPerCall ==
    \A c \in CallIds :
        calls[c].issued = 1 => calls[c].reqTimeout = calls[c].httpTimeout

\* C21 (as claimed): a response served from the cache was fetched with the
\* authorization token that is current at the time of the call.
C21_CacheRespectsToken ==
    \A c \in CallIds :
        (calls[c].pc = "returned" /\ calls[c].issued = 0) =>
            calls[c].entryAuth = calls[c].auth

----------------------------------------------------------------------------
(* fetchSearchCourses (lines 242-272) and fetchCourses (lines 274-300)     *)

URL_COURSES == "/users/me/subscribed-courses"
URL_COURSES_ENROLL == "/users/me/subscription-course-enrollments"

\* the two legs of Promise.all are the cached fetches 1 and 2
CoursesLeg == 1
EnrolledLeg == 2

\* a null next / previous of the merged collection, and an array of links
NullLinks == JsNull
Links(list) == [js |-> "array", items |-> list]

\* the collections the listing endpoints answer with
Counts == {0, 3, 5}
NextLinks == {Null, "next-1", "next-2"}
PreviousLinks == {Null, "previous-1"}
CourseIds == {"course-1", "course-2"}
Collections == [count : Counts, next : NextLinks, previous : PreviousLinks,
                results : SeqsUpTo(CourseIds, MaxResults)]

Keywords == {"", "js"}
PageSizes == {5, 30}

\* Math.max(pageSize, 10)
PageSizeFloor(pageSize) == IF pageSize > 10 THEN pageSize ELSE 10

\* `${endpoint}?page_size=${pageSize}&ordering=-last_accessed`, behind
\* `${urlBase}/api-2.0`
ListingUrl(endpoint, pageSize) ==
    [endpoint |-> endpoint, pageSize |-> pageSize, ordering |-> "-last_accessed",
     search |-> ""]

\* `${endpoint}?page=1&ordering=title&fields[user]=job_title&page_size=${pageSize}&search=${keyword}`
SearchUrl(endpoint, pageSize, keyword) ==
    [endpoint |-> endpoint, pageSize |-> pageSize, ordering |-> "title",
     search |-> keyword]

\* [a, b].filter((n) => n !== null)
FilterNotNull(list) == SelectSeq(list, LAMBDA n : n # Null)

\* next.length > 0 ? next : null
MutLinksOrNull(list) == Links(list)
LinksOrNull(list) == IF Len(list) > 0 THEN Links(list) ELSE NullLinks

\* lines 260-268 and 288-296: the merged collection
MergeCollections(courses, enrolledCourses) ==
    [count |-> courses.count + enrolledCourses.count,
     next |-> LinksOrNull(FilterNotNull(<<courses.next, enrolledCourses.next>>)),
     previous |-> LinksOrNull(FilterNotNull(<<courses.previous, enrolledCourses.previous>>)),
     results |-> courses.results \o enrolledCourses.results]

\* the legs the invocation awaits
Legs(isSubscriber) == IF isSubscriber THEN {CoursesLeg, EnrolledLeg} ELSE {CoursesLeg}

\* the continuation after Promise.all (lines 260-268, 288-296) or after the
\* single await (lines 271, 299), once every leg has returned
Settle(net, isSubscriber) ==
    IF \A c \in Legs(isSubscriber) : net.calls[c].pc = "returned"
    THEN /\ listPc' = "returned"
         /\ listResult' = IF isSubscriber
                          THEN MergeCollections(net.calls[CoursesLeg].result,
                                                net.calls[EnrolledLeg].result)
                          ELSE net.calls[CoursesLeg].result
    ELSE /\ listPc' = "awaiting"
         /\ listResult' = listResult

\* lines 254-258 / 271 and 282-286 / 299: the endpoint fetches are started
\* one after the other, each running up to its axios request
StartListing(op, url, urlEnroll, isSubscriber, httpTimeout) ==
    LET first == CachedFetch(Net, CoursesLeg, op, url, httpTimeout, headerAuth)
        both == IF isSubscriber
                THEN CachedFetch(first, EnrolledLeg, op, urlEnroll, httpTimeout, headerAuth)
                ELSE first
    IN  /\ SetNet(both)
        /\ Settle(both, isSubscriber)

\* fetchCourses(pageSize, isSubscriber, httpTimeout), lines 274-300
CoursesBody(op, pageSize, isSubscriber, httpTimeout) ==
    StartListing(op, ListingUrl(URL_COURSES, PageSizeFloor(pageSize)),
                 ListingUrl(URL_COURSES_ENROLL, PageSizeFloor(pageSize)),
                 isSubscriber, httpTimeout)

FetchCourses(pageSize, isSubscriber, httpTimeout) ==
    /\ listPc = "idle"
    /\ listArgs' = [op |-> "fetchCourses", keyword |-> "", pageSize |-> pageSize,
                    isSubscriber |-> isSubscriber, httpTimeout |-> httpTimeout]
    /\ CoursesBody("fetchCourses", pageSize, isSubscriber, httpTimeout)
    /\ UNCHANGED <<now, timeout, headerAuth>>
    /\ UNCHANGED <<streamVars, contentVars>>

\* fetchSearchCourses(keyword, pageSize, isSubscriber, httpTimeout), lines
\* 242-272; without a keyword it is fetchCourses
FetchSearchCourses(keyword, pageSize, isSubscriber, httpTimeout) ==
    /\ listPc = "idle"
    /\ listArgs' = [op |-> "fetchSearchCourses", keyword |-> keyword, pageSize |-> pageSize,
                    isSubscriber |-> isSubscriber, httpTimeout |-> httpTimeout]
    /\ IF keyword = ""
       THEN CoursesBody("fetchSearchCourses", pageSize, isSubscriber, httpTimeout)
       ELSE StartListing("fetchSearchCourses",
                         SearchUrl(URL_COURSES, PageSizeFloor(pageSize), keyword),
                         SearchUrl(URL_COURSES_ENROLL, PageSizeFloor(pageSize), keyword),
                         isSubscriber, httpTimeout)
    /\ UNCHANGED <<now, timeout, headerAuth>>
    /\ UNCHANGED <<streamVars, contentVars>>

\* the request of leg c succeeds: #fetchUrl stores and returns the body, and
\* the invocation continues when it was the last leg awaited
ListingResolve(c, data) ==
    /\ calls[c].pc = "waiting"
    /\ LET net == ResolvedIn(Net, c, data, listPc)
       IN  /\ SetNet(net)
           /\ IF listPc = "awaiting"
              THEN Settle(net, listArgs.isSubscriber)
              ELSE UNCHANGED <<listPc, listResult>>
    /\ UNCHANGED <<now, timeout, headerAuth, listArgs>>
    /\ UNCHANGED <<streamVars, contentVars>>

\* the request of leg c fails: #fetchUrl rethrows, Promise.all rejects with
\* the first rejection, and the invocation throws
ListingReject(c, status) ==
    /\ calls[c].pc = "waiting"
    /\ SetNet(Rejected(Net, c, AxiosError(status)))
    /\ listPc' = IF listPc = "awaiting" THEN "threw" ELSE listPc
    /\ UNCHANGED <<now, timeout, headerAuth, listArgs, listResult>>
    /\ UNCHANGED <<streamVars, contentVars>>

CoursesInit ==
    /\ CacheIdle
    /\ StreamsIdle
    /\ ListIdle
    /\ ContentIdle

CoursesNext ==
    \/ \E pageSize \in PageSizes, isSubscriber \in BOOLEAN, httpTimeout \in Timeouts :
          FetchCourses(pageSize, isSubscriber, httpTimeout)
    \/ \E keyword \in Keywords, pageSize \in PageSizes, isSubscriber \in BOOLEAN,
          httpTimeout \in Timeouts :
          FetchSearchCourses(keyword, pageSize, isSubscriber, httpTimeout)
    \/ \E c \in {CoursesLeg, EnrolledLeg}, data \in Collections : ListingResolve(c, data)
    \/ \E c \in {CoursesLeg, EnrolledLeg}, status \in Statuses : ListingReject(c, status)

SpecCourses == CoursesInit /\ [][CoursesNext]_vars

\* the array of the non-null ones of two links, in that order; null when
\* both are null
ExpectedLinks(first, second) ==
    IF first = Null /\ second = Null THEN NullLinks
    ELSE IF first = Null THEN Links(<<second>>)
    ELSE IF second = Null THEN Links(<<first>>)
    ELSE Links(<<first, second>>)

\* the collections the two endpoints answered with
Subscribed == calls[CoursesLeg].result
Enrolled == calls[EnrolledLeg].result

\* C8: for a subscriber, fetchCourses and fetchSearchCourses return the merge
\* of the subscribed and the enrolled collection: the sum of the counts, the
\* subscribed results followed by the enrolled ones, and as next (previous)
\* the array of the non-null next (previous) values in that order, or null
\* when both are null.
C8_SubscriberMerge ==
    (listPc = "returned" /\ listArgs.isSubscriber)
        => /\ calls[CoursesLeg].url.endpoint = URL_COURSES
           /\ calls[EnrolledLeg].url.endpoint = URL_COURSES_ENROLL
           /\ listResult.count = Subscribed.count + Enrolled.count
           /\ listResult.results = Subscribed.results \o Enrolled.results
           /\ listResult.next = ExpectedLinks(Subscribed.next, Enrolled.next)
           /\ listResult.previous = ExpectedLinks(Subscribed.previous, Enrolled.previous)

\* counts 5 and 3 with next "next-1" and null give count 8 and next ["next-1"]
C8_Witness ==
    /\ listPc = "returned" /\ listArgs.isSubscriber
    /\ listArgs.op = "fetchSearchCourses" /\ listArgs.keyword # ""
    /\ Subscribed.count = 5 /\ Enrolled.count = 3
    /\ Subscribed.next = "next-1" /\ Enrolled.next = Null
    /\ Subscribed.previous = Null /\ Enrolled.previous = Null
    /\ Len(listResult.results) = 2
    /\ listResult.count = 8
    /\ listResult.next = Links(<<"next-1">>)
    /\ listResult.previous = NullLinks

----------------------------------------------------------------------------
(* _convertToStreams, lines 92-177 *)

\* sources[key] = value
Put(obj, key, value) ==
    [k \in DOMAIN obj \cup {key} |-> IF k = key THEN value ELSE obj[k]]

\* line 101: the descriptors kept by the encrypted-file filter
RECURSIVE FilterStreams(_, _)
FilterStreams(list, hint) ==
    IF ~hint THEN list
    ELSE IF list = <<>> THEN <<>>
    ELSE LET rest == FilterStreams(Tail(list), hint)
         IN  IF IncludesMarker(Head(list).url) THEN rest ELSE <<Head(list)>> \o rest

\* line 102: isEncrypted = isEncrypted ? streams.length === 0 : isEncrypted
MutEffectiveEncrypted(hint, filtered) == IF hint THEN Len(filtered) # 0 ELSE hint
EffectiveEncrypted(hint, filtered) == IF hint THEN Len(filtered) = 0 ELSE hint

\* line 104: streams = streams.length > 0 ? streams : streamUrls
EffectiveStreams(filtered, list) == IF Len(filtered) > 0 THEN filtered ELSE list

\* lines 117-122 and 136-141: the running bounds
MutLowerMin(mn, q) == q
LowerMin(mn, q) == IF q < mn THEN q ELSE mn
MutRaiseMax(mx, q) == mx
RaiseMax(mx, q) == IF q > mx THEN q ELSE mx

\* lines 107-129: the part of the map callback for one descriptor that runs
\* before its first await; st carries sources, the bounds, the indices whose
\* callback is suspended in loadPlaylist()
MutSyncStep(st, video, i, enc) ==
    IF video.type = DashType THEN st
    ELSE LET quality == ToLowerCase(video.label)
             registered == Put(st.sources, quality, [type |-> video.type, url |-> video.url])
         IN  IF quality # "auto"
             THEN IF ParseIntIsNaN(quality)
                  THEN [st EXCEPT !.sources = registered]
                  ELSE [st EXCEPT !.sources = registered,
                                  !.min = LowerMin(st.min, ParseInt(quality)),
                                  !.max = RaiseMax(st.max, ParseInt(quality))]
             ELSE [st EXCEPT !.sources = registered, !.pending = @ \cup {i}]
SyncStep(st, video, i, enc) ==
    IF video.type = DashType THEN st
    ELSE LET quality == ToLowerCase(video.label)
             registered == Put(st.sources, quality, [type |-> video.type, url |-> video.url])
         IN  IF quality # "auto"
             THEN IF ParseIntIsNaN(quality)
                  THEN [st EXCEPT !.sources = registered]
                  ELSE [st EXCEPT !.sources = registered,
                                  !.min = LowerMin(st.min, ParseInt(quality)),
                                  !.max = RaiseMax(st.max, ParseInt(quality))]
             ELSE IF ~enc
                  THEN [st EXCEPT !.sources = registered, !.pending = @ \cup {i}]
                  ELSE [st EXCEPT !.sources = registered]

\* line 106: streams.map(async ...) calls the callbacks in index order, each
\* running synchronously up to its first await
RECURSIVE SyncMap(_, _, _, _)
SyncMap(st, list, i, enc) ==
    IF i > Len(list) THEN st
    ELSE SyncMap(SyncStep(st, list[i], i, enc), list, i + 1, enc)

\* lines 132-145: the loop over the playlist of one "auto" descriptor
RECURSIVE MutMergePlaylist(_, _, _)
MutMergePlaylist(st, type, playlist) ==
    IF playlist = <<>> THEN st
    ELSE LET item == Head(playlist)
             key == NumToString(item.quality)
             merged == [sources |-> IF key \in DOMAIN st.sources
                                    THEN st.sources
                                    ELSE Put(st.sources, key, [type |-> type, url |-> item.url]),
                        min |-> LowerMin(st.min, item.quality),
                        max |-> st.max]
         IN  MutMergePlaylist(merged, type, Tail(playlist))
RECURSIVE MutOverwritePlaylist(_, _, _)
MutOverwritePlaylist(st, type, playlist) ==
    IF playlist = <<>> THEN st
    ELSE LET item == Head(playlist)
             key == NumToString(item.quality)
             merged == [sources |-> Put(st.sources, key, [type |-> type, url |-> item.url]),
                        min |-> LowerMin(st.min, item.quality),
                        max |-> RaiseMax(st.max, item.quality)]
         IN  MutOverwritePlaylist(merged, type, Tail(playlist))
RECURSIVE MergePlaylist(_, _, _)
MergePlaylist(st, type, playlist) ==
    IF playlist = <<>> THEN st
    ELSE LET item == Head(playlist)
             key == NumToString(item.quality)
             merged == [sources |-> IF key \in DOMAIN st.sources
                                    THEN st.sources
                                    ELSE Put(st.sources, key, [type |-> type, url |-> item.url]),
                        min |-> LowerMin(st.min, item.quality),
                        max |-> RaiseMax(st.max, item.quality)]
         IN  MergePlaylist(merged, type, Tail(playlist))

\* lines 168-173: the returned object
StreamsResult(src, mn, mx, enc) ==
    [minQuality |-> IF mn = MAX_SAFE_INTEGER
                    THEN (IF "auto" \in DOMAIN src THEN "auto" ELSE Null)
                    ELSE NumToString(mn),
     maxQuality |-> IF mx = MIN_SAFE_INTEGER
                    THEN (IF "auto" \in DOMAIN src THEN "auto" ELSE Null)
                    ELSE NumToString(mx),
     isEncrypted |-> enc,
     sources |-> src]

\* lines 174-176: the catch of _convertToStreams
ConvertCatch(error) == _error("ECONVERT_TO_STREAMS", error.message)

StreamsInit ==
    /\ CacheIdle
    /\ ListIdle
    /\ ContentIdle
    /\ streamUrlsGiven \in BOOLEAN
    /\ streamUrls \in SeqsUpTo(Descriptors, MaxDescriptors)
    /\ streamUrlsGiven = FALSE => streamUrls = <<>>
    /\ encryptedHint \in BOOLEAN
    /\ isEncrypted = encryptedHint
    /\ streams = <<>>
    /\ sources = <<>>
    /\ minQuality = MAX_SAFE_INTEGER
    /\ maxQuality = MIN_SAFE_INTEGER
    /\ loads = <<>>
    /\ yielded = {}
    /\ loadCalls = 0
    /\ convPc = "start"
    /\ convResult = NoResult
    /\ convError = NoError

\* lines 94-96 with the catch of 174-176: no streamUrls
ConvertNoStreams ==
    /\ convPc = "start"
    /\ ~streamUrlsGiven
    /\ convPc' = "rejected"
    /\ convError' = ConvertCatch(_error("ENO_STREAMS", "No streams found to convert"))
    /\ UNCHANGED <<streamUrlsGiven, streamUrls, encryptedHint, isEncrypted, streams,
                   sources, minQuality, maxQuality, loads, yielded, loadCalls,
                   convResult>>
    /\ UNCHANGED <<cacheVars, listVars, contentVars>>

\* lines 97-165 up to the suspension in Promise.all; when no callback is
\* suspended, Promise.all resolves and lines 168-173 return
ConvertStart ==
    /\ convPc = "start"
    /\ streamUrlsGiven
    /\ LET filtered == FilterStreams(streamUrls, encryptedHint)
           enc == EffectiveEncrypted(encryptedHint, filtered)
           eff == EffectiveStreams(filtered, streamUrls)
           st == SyncMap([sources |-> <<>>, min |-> MAX_SAFE_INTEGER,
                          max |-> MIN_SAFE_INTEGER, pending |-> {}], eff, 1, enc)
       IN  /\ isEncrypted' = enc
           /\ streams' = eff
           /\ sources' = st.sources
           /\ minQuality' = st.min
           /\ maxQuality' = st.max
           /\ loads' = [i \in 1..Len(eff) |-> IF i \in st.pending THEN "pending" ELSE "none"]
           /\ yielded' = {}
           /\ loadCalls' = Cardinality(st.pending)
           /\ IF st.pending = {}
              THEN /\ convPc' = "resolved"
                   /\ convResult' = StreamsResult(st.sources, st.min, st.max, enc)
              ELSE /\ convPc' = "awaiting"
                   /\ convResult' = convResult
    /\ UNCHANGED <<streamUrlsGiven, streamUrls, encryptedHint, convError>>
    /\ UNCHANGED <<cacheVars, listVars, contentVars>>

\* lines 129-145: loadPlaylist() of descriptor i resolves and its callback
\* runs to its end; when it was the last one and none failed, Promise.all
\* resolves and lines 168-173 return
PlaylistLoaded(i, playlist) ==
    /\ i \in DOMAIN loads
    /\ loads[i] = "pending"
    /\ LET st == MergePlaylist([sources |-> sources, min |-> minQuality, max |-> maxQuality],
                               streams[i].type, playlist)
           done == [loads EXCEPT ![i] = "done"]
       IN  /\ sources' = st.sources
           /\ minQuality' = st.min
           /\ maxQuality' = st.max
           /\ loads' = done
           /\ yielded' = yielded \cup {playlist[k] : k \in DOMAIN playlist}
           /\ IF convPc = "awaiting" /\ \A j \in DOMAIN done : done[j] \in {"none", "done"}
              THEN /\ convPc' = "resolved"
                   /\ convResult' = StreamsResult(st.sources, st.min, st.max, isEncrypted)
              ELSE UNCHANGED <<convPc, convResult>>
    /\ UNCHANGED <<streamUrlsGiven, streamUrls, encryptedHint, isEncrypted, streams,
                   loadCalls, convError>>
    /\ UNCHANGED <<cacheVars, listVars, contentVars>>

\* line 129: loadPlaylist() of descriptor i rejects; Promise.all rejects with
\* the first rejection and the catch of lines 174-176 wraps it
PlaylistFailed(i) ==
    /\ i \in DOMAIN loads
    /\ loads[i] = "pending"
    /\ loads' = [loads EXCEPT ![i] = "failed"]
    /\ IF convPc = "awaiting"
       THEN /\ convPc' = "rejected"
            /\ convError' = ConvertCatch(_error("Error", "playlist"))
       ELSE UNCHANGED <<convPc, convError>>
    /\ UNCHANGED <<streamUrlsGiven, streamUrls, encryptedHint, isEncrypted, streams,
                   sources, minQuality, maxQuality, yielded, loadCalls, convResult>>
    /\ UNCHANGED <<cacheVars, listVars, contentVars>>

StreamsNext ==
    \/ ConvertNoStreams
    \/ ConvertStart
    \/ \E i \in 1..(MaxDescriptors + 1), playlist \in Playlists : PlaylistLoaded(i, playlist)
    \/ \E i \in 1..(MaxDescriptors + 1) : PlaylistFailed(i)

SpecStreams == StreamsInit /\ [][StreamsNext]_vars

----------------------------------------------------------------------------
(* Properties of _convertToStreams *)

\* the promise of _convertToStreams has settled
ConvSettled == convPc \in {"resolved", "rejected"}

\* The descriptors the resolver works on, stated from the rules of the
\* resolver rather than from its variables: the ones without the
\* encrypted-file marker when the hint is set and there is one, else all.
Unmarked == {i \in DOMAIN streamUrls : ~IncludesMarker(streamUrls[i].url)}
Kept == IF encryptedHint /\ Unmarked # {} THEN Unmarked ELSE DOMAIN streamUrls
\* ... of which the manifest-typed ones are skipped
Processed == {i \in Kept : streamUrls[i].type # DashType}
NotDash == {i \in DOMAIN streamUrls : streamUrls[i].type # DashType}

NumericLabels == {"360", "720"}
LabelValue(l) == IF l = "360" THEN 360 ELSE 720
QualityString(n) == CHOOSE l \in {"360", "720", "1080"} :
                        (l = "360" /\ n = 360) \/ (l = "720" /\ n = 720) \/ (l = "1080" /\ n = 1080)
IsAuto(d) == d.label \in {"Auto", "auto"}
KeyOf(d) == IF IsAuto(d) THEN "auto" ELSE d.label
SetMin(S) == CHOOSE x \in S : \A y \in S : x <= y
SetMax(S) == CHOOSE x \in S : \A y \in S : x >= y

AllMarked ==
    /\ streamUrls # <<>>
    /\ \A i \in DOMAIN streamUrls : IncludesMarker(streamUrls[i].url)

C5_EmptyFailsWithENoStreams ==
    (ConvSettled /\ (~streamUrlsGiven \/ streamUrls = <<>>))
        => (convPc = "rejected" /\ convError.name = "ENO_STREAMS")

\* the bounds and keys a list of numeric-labeled descriptors must give,
\* counting the descriptors of the index set P
NumericResultOf(P) ==
    LET L == {streamUrls[i].label : i \in P}
        V == {LabelValue(l) : l \in L}
    IN  /\ DOMAIN convResult.sources = L
        /\ IF V = {}
           THEN convResult.minQuality = Null /\ convResult.maxQuality = Null
           ELSE /\ convResult.minQuality = QualityString(SetMin(V))
                /\ convResult.maxQuality = QualityString(SetMax(V))

C9_Pre ==
    /\ convPc = "resolved"
    /\ streamUrlsGiven
    /\ streamUrls # <<>>
    /\ \A i \in DOMAIN streamUrls : streamUrls[i].label \in NumericLabels

\* C9 (as amended): for a non-empty list of numeric-labeled descriptors with
\* no "auto" entry, minQuality / maxQuality are the minimum / maximum of the
\* numeric labels of the descriptors that are processed (those kept by the
\* encrypted-file filter and not of the manifest type; null when there is
\* none), and sources has exactly one entry per distinct label of those.
C9_NumericBoundsOfProcessed == C9_Pre => NumericResultOf(Processed)

\* C9 (as claimed): ... the minimum / maximum of the numeric labels of the
\* list, and sources has exactly one entry per distinct label of the list.
C9_Original == C9_Pre => NumericResultOf(DOMAIN streamUrls)

C9_Witness ==
    /\ C9_Pre
    /\ Processed = DOMAIN streamUrls
    /\ convResult.minQuality = "360"
    /\ convResult.maxQuality = "720"

\* what the result must be when the "auto" descriptors among P are expanded
AutoResultOf(P) ==
    LET src == convResult.sources
        autos == {i \in P : IsAuto(streamUrls[i])}
        explicit == {i \in P : ~IsAuto(streamUrls[i])}
        V == {LabelValue(streamUrls[i].label) :
                 i \in {j \in explicit : streamUrls[j].label \in NumericLabels}}
             \cup {item.quality : item \in yielded}
    IN  \* the "auto" entry, verbatim
        /\ "auto" \in DOMAIN src
        /\ \E i \in autos : src["auto"] = [type |-> streamUrls[i].type, url |-> streamUrls[i].url]
        \* one numeric entry for every quality the playlists yielded
        /\ DOMAIN src = {KeyOf(streamUrls[i]) : i \in P}
                        \cup {QualityString(item.quality) : item \in yielded}
        /\ \A item \in yielded :
              LET key == QualityString(item.quality)
              IN  IF \E i \in explicit : streamUrls[i].label = key
                  THEN \E i \in explicit :
                          /\ streamUrls[i].label = key
                          /\ src[key] = [type |-> streamUrls[i].type, url |-> streamUrls[i].url]
                  ELSE \E other \in yielded, i \in autos :
                          /\ other.quality = item.quality
                          /\ src[key] = [type |-> streamUrls[i].type, url |-> other.url]
        \* the bounds: the explicit numeric labels and the yielded qualities
        /\ IF V = {}
           THEN convResult.minQuality = "auto" /\ convResult.maxQuality = "auto"
           ELSE /\ convResult.minQuality = QualityString(SetMin(V))
                /\ convResult.maxQuality = QualityString(SetMax(V))

\* C10 (as amended): for an unencrypted asset with an "auto" descriptor that
\* is processed (kept by the encrypted-file filter and not of the manifest
\* type), the result keeps an "auto" entry verbatim, has one numeric entry
\* for every quality the playlist resolver yielded that was not already
\* present, and its minQuality / maxQuality are the minimum / maximum over
\* the explicit numeric labels of the processed descriptors together with
\* the playlist-discovered qualities.
C10_AutoExpanded ==
    (convPc = "resolved" /\ ~convResult.isEncrypted
        /\ \E i \in Processed : IsAuto(streamUrls[i]))
        => AutoResultOf(Processed)

\* C10 (as claimed): for an unencrypted asset with an "auto" descriptor, ...
\* over the explicit numeric labels together with the discovered qualities.
C10_Original ==
    (convPc = "resolved" /\ ~convResult.isEncrypted
        /\ \E i \in DOMAIN streamUrls : IsAuto(streamUrls[i]))
        => AutoResultOf(DOMAIN streamUrls)

C10_Witness ==
    /\ convPc = "resolved" /\ ~convResult.isEncrypted
    /\ \E i \in Processed : IsAuto(streamUrls[i])
    /\ \E i \in Processed : streamUrls[i].label = "360"
    /\ \E item \in yielded : item.quality = 360
    /\ \E item \in yielded : item.quality = 1080
    /\ convResult.maxQuality = "1080"

NumericStrings == {"360", "720", "1080"}

\* minQuality and maxQuality of a result are of one kind
SameKind(res) ==
    \/ res.minQuality \in NumericStrings /\ res.maxQuality \in NumericStrings
    \/ res.minQuality = "auto" /\ res.maxQuality = "auto"
    \/ res.minQuality = Null /\ res.maxQuality = Null

\* C11 (as amended): in every result, minQuality and maxQuality are both
\* numeric strings, both "auto" or both null, and they are null only when
\* sources has neither an "auto" key nor a numeric key.
C11_BoundsOfOneKind ==
    convPc = "resolved" =>
        /\ SameKind(convResult)
        /\ convResult.minQuality = Null =>
              DOMAIN convResult.sources \cap ({"auto"} \cup NumericStrings) = {}

\* C11 (as claimed): ... and they are null only when sources is empty.
C11_Original ==
    convPc = "resolved" =>
        /\ SameKind(convResult)
        /\ convResult.minQuality = Null => DOMAIN convResult.sources = {}

\* a result with null bounds whose sources are not empty
C11_Witness ==
    /\ convPc = "resolved"
    /\ convResult.minQuality = Null
    /\ convResult.maxQuality = Null
    /\ DOMAIN convResult.sources = {"hd"}

\* the source of descriptor i, as line 112 registers it
SourceOf(i) == [type |-> streamUrls[i].type, url |-> streamUrls[i].url]

\* the descriptors of the index set P labelled with the numeric key
Explicit(P, key) == {i \in P : streamUrls[i].label = key}

\* every quality the playlists have yielded so far that is also the label of
\* a descriptor of P is mapped to the source of the last such descriptor
ExplicitKept(P) ==
    convPc \in {"awaiting", "resolved", "rejected"} /\ streamUrlsGiven =>
        \A item \in yielded :
            LET key == QualityString(item.quality)
            IN  Explicit(P, key) # {} =>
                    /\ key \in DOMAIN sources
                    /\ sources[key] = SourceOf(SetMax(Explicit(P, key)))
                    /\ convPc = "resolved" => convResult.sources[key] = sources[key]

\* C15 (as amended): in every order of the descriptors and every completion
\* order of the playlist loads, a quality that is both the label of a
\* processed descriptor (kept by the encrypted-file filter and not of the
\* manifest type) and discovered through a playlist is mapped to that
\* descriptor's source.
C15_ExplicitWins == ExplicitKept(Processed)

\* C15 (as claimed): ... a quality that is both the label of a descriptor of
\* the list and discovered through a playlist is mapped to that descriptor's
\* source.
C15_Original == ExplicitKept(DOMAIN streamUrls)

\* two playlists were loaded, both yielding the quality of an explicit
\* descriptor that was listed after the "auto" descriptors
C15_Witness ==
    /\ convPc = "resolved"
    /\ Len(streamUrls) = MaxDescriptors
    /\ Cardinality({i \in DOMAIN loads : loads[i] = "done"}) = 2
    /\ Explicit(Processed, "360") = {MaxDescriptors}
    /\ \E a, b \in yielded : a.quality = 360 /\ b.quality = 360 /\ a.url # b.url

\* the processed descriptors labelled "auto"
Autos == {i \in Processed : IsAuto(streamUrls[i])}

\* C20: once the descriptors have been mapped, loadPlaylist has been invoked
\* once for each processed "auto" descriptor when the effective encryption
\* flag is false, and not at all when it is true; in that case the playlists
\* yield nothing, sources holds the processed descriptors' own keys only,
\* and "auto" is mapped to the descriptor's own source.
C20_PlaylistPerAuto ==
    (convPc \in {"awaiting", "resolved", "rejected"} /\ streamUrlsGiven) =>
        /\ isEncrypted = (encryptedHint /\ Unmarked = {})
        /\ IF ~isEncrypted
           THEN /\ loadCalls = Cardinality(Autos)
                /\ \A i \in DOMAIN loads :
                      loads[i] # "none" <=> (streams[i].type # DashType /\ IsAuto(streams[i]))
           ELSE /\ loadCalls = 0
                /\ \A i \in DOMAIN loads : loads[i] = "none"
                /\ yielded = {}
                /\ convPc = "resolved"
                /\ DOMAIN convResult.sources = {KeyOf(streamUrls[i]) : i \in Processed}
                /\ Autos # {} => convResult.sources["auto"] = SourceOf(SetMax(Autos))

\* two "auto" descriptors of an unencrypted asset: two playlists loaded
C20_Witness ==
    /\ convPc = "resolved"
    /\ ~isEncrypted
    /\ Cardinality(Autos) = 2
    /\ loadCalls = 2
    /\ yielded # {}

----------------------------------------------------------------------------
(* fetchCourseContent (lines 338-409) with fetchCourse (lines 302-305),    *)
(* fetchLecture (lines 315-324), _prepareStreamSource and                  *)
(* _prepareStreamsSource (lines 42-78)                                     *)

ContentTypes == {"", "All"}
ContentCounts == {0, 2}

\* (contentType || "less").toLowerCase()
NormalContentType(contentType) ==
    IF contentType = "" THEN "less"
    ELSE IF contentType = "All" THEN "all"
    ELSE contentType

\* the cached fetches of one invocation: the page or fallback fetch in
\* flight, the hydration fetch of item i, the presentation fetch of item i
MainCall == 0
HydrateCall(i) == i
PrepareCall(i) == MaxItems + 1 + i
ItemIndices == 1..(MaxItems + 1)
ContentCalls == 0..(2 * (MaxItems + 1))

\* lines 339-346: the url of the first page, the fields chosen by contentType
FirstUrl(type) ==
    [kind |-> "cached-subscriber-curriculum-items", pageSize |-> 200, page |-> 1,
     fields |-> type, encoded |-> FALSE]

\* line 303: the url of fetchCourse
FetchCourseUrl ==
    [kind |-> "cached-subscriber-curriculum-items", pageSize |-> 10000, page |-> 1,
     fields |-> "id,title,asset", encoded |-> FALSE]

\* lines 316-317: the url of fetchLecture
LectureUrl(lectureId, getAttachments, allAssets) ==
    [kind |-> "lecture", id |-> lectureId, attachments |-> getAttachments,
     allAssets |-> allAssets]

\* the next link the server sends with a page: percent-encoded
NextLink(url) == [url EXCEPT !.page = @ + 1, !.encoded = TRUE]

\* lines 362-363: decodeURI and the replacements of %5B, %5D, %2C
DecodeNext(next) == [next EXCEPT !.encoded = FALSE]

\* contentData.results[0]._class on an empty results array
TypeError == [name |-> "TypeError", message |-> "Cannot read properties of undefined"]

\* assets as the server sends them; raw: it carries stream descriptors
\* (stream_urls.Video or media_sources); origin: the response it came with
Asset(type, raw, origin) ==
    [asset_type |-> type, raw |-> raw, streams |-> FALSE, origin |-> origin]
ServerAssets(origin) ==
    {Undefined, Asset("Video", TRUE, origin), Asset("Presentation", FALSE, origin)}
Attachments(origin) == [js |-> "array", origin |-> origin]

\* asset_type.toLowerCase()
AssetTypeLower(type) ==
    CASE type = "Video" -> "video"
      [] type = "VideoMashup" -> "videomashup"
      [] type = "Presentation" -> "presentation"

\* the curriculum items a response lists: their class and asset
ItemKinds(origin) ==
    [class : {"chapter", "quiz"}, asset : {Undefined}]
        \cup [class : {"lecture"}, asset : ServerAssets(origin)]

\* the results of a response: items numbered from base on
MakeItems(kinds, base) ==
    [k \in 1..Len(kinds) |->
        [id |-> base + k, _class |-> kinds[k].class, asset |-> kinds[k].asset,
         supplementary_assets |-> Undefined]]

\* the lecture records fetchLecture answers with
LectureRecords(origin) ==
    [asset : ServerAssets(origin), supplementary_assets : {Attachments(origin)}]

\* lines 384-388
Placeholder == [id |-> 0, _class |-> "chapter", title |-> "Chapter 1"]

\* el.asset
AssetOf(el) == IF "asset" \in DOMAIN el THEN el.asset ELSE Undefined

\* the state fetchCourseContent reads and writes
World ==
    [cache |-> cache, calls |-> calls, requests |-> requests, contPc |-> contPc,
     contUrl |-> contUrl, contentData |-> contentData, loadContent |-> loadContent,
     prep |-> prep, contResult |-> contResult, contError |-> contError,
     fetchLog |-> fetchLog, retrieved |-> retrieved, pageStatus |-> pageStatus]

SetWorld(w) ==
    /\ cache' = w.cache
    /\ calls' = w.calls
    /\ requests' = w.requests
    /\ contPc' = w.contPc
    /\ contUrl' = w.contUrl
    /\ contentData' = w.contentData
    /\ loadContent' = w.loadContent
    /\ prep' = w.prep
    /\ contResult' = w.contResult
    /\ contError' = w.contError
    /\ fetchLog' = w.fetchLog
    /\ retrieved' = w.retrieved
    /\ pageStatus' = w.pageStatus

NetOf(w) == [cache |-> w.cache, calls |-> w.calls, requests |-> w.requests]
WithNet(w, net) ==
    [w EXCEPT !.cache = net.cache, !.calls = net.calls, !.requests = net.requests]

\* a fetch through #fetchUrl as call c, up to its return or its await
FetchVia(w, c, op, url, httpTimeout) ==
    [WithNet(w, CachedFetch(NetOf(w), c, op, url, httpTimeout, headerAuth))
        EXCEPT !.fetchLog = Append(@, [op |-> op, url |-> url])]

Return(w, value) == [w EXCEPT !.contPc = "returned", !.contResult = value]
Throw(w, error) == [w EXCEPT !.contPc = "threw", !.contError = error]

\* lines 396-397 (and 60-61): the item takes the asset and the attachments of
\* the lecture record
ApplyLecture(data, i, lecture) ==
    [data EXCEPT !.results[i].asset = lecture.asset,
                 !.results[i].supplementary_assets = lecture.supplementary_assets]

\* lines 54-56: the raw descriptors are deleted, the streams set
ApplyStreams(data, i) ==
    [data EXCEPT !.results[i].asset.raw = FALSE, !.results[i].asset.streams = TRUE]

\* lines 65 and 76: the catches of _prepareStreamSource and
\* _prepareStreamsSource
PrepareCatch(error) == _error("EPREPARE_STREAM_SOURCE", error.message)
PrepareAllCatch(error) == _error("EPREPARE_STREAMS_SOURCE", error.message)

\* lines 73-77 and 406-408: Promise.all over the items' preparations has
\* resolved once none is left pending; fetchCourseContent returns contentData
MutJoinPrepare(w) ==
    IF w.contPc = "preparing" /\ \A i \in DOMAIN w.prep : w.prep[i] # "failed"
    THEN Return(w, w.contentData)
    ELSE w
JoinPrepare(w) ==
    IF w.contPc = "preparing" /\ \A i \in DOMAIN w.prep : w.prep[i] \in {"none", "converted", "fetched"}
    THEN Return(w, w.contentData)
    ELSE w

\* lines 42-63: _prepareStreamSource of item i up to its first await
PrepareSync(w, i) ==
    LET el == w.contentData.results[i]
        asset == AssetOf(el)
        type == IF asset = Undefined THEN "undefined" ELSE AssetTypeLower(asset.asset_type)
        mark(state) == [w EXCEPT !.prep = Append(@, state)]
    IN  IF el._class # "lecture" THEN mark("none")
        ELSE IF type \in {"video", "videomashup"}
        THEN IF asset.raw THEN mark("convert") ELSE mark("none")
        ELSE IF type = "presentation"
        THEN LET fetched == FetchVia(w, PrepareCall(i), "fetchLecture",
                                     LectureUrl(el.id, TRUE, TRUE), timeout)
                 call == fetched.calls[PrepareCall(i)]
             IN  IF call.pc = "returned"
                 THEN [fetched EXCEPT !.prep = Append(@, "fetched"),
                                      !.contentData = ApplyLecture(@, i, call.result)]
                 ELSE [fetched EXCEPT !.prep = Append(@, "fetch")]
        ELSE mark("none")

\* line 72: items.map calls _prepareStreamSource for the items in order
RECURSIVE PrepareMap(_, _)
PrepareMap(w, i) ==
    IF i > Len(w.contentData.results) THEN w
    ELSE PrepareMap(PrepareSync(w, i), i + 1)

\* lines 404-408: the count is set to the number of results and the stream
\* sources of all items are prepared
Finish(w) ==
    JoinPrepare(PrepareMap([w EXCEPT !.contentData.count = Len(w.contentData.results),
                                     !.prep = <<>>,
                                     !.contPc = "preparing"], 1))

\* lines 393-399: the hydration callback of item i up to its await
HydrateSync(w, i, httpTimeout) ==
    LET el == w.contentData.results[i]
    IN  IF el._class # "lecture" THEN w
        ELSE LET fetched == FetchVia(w, HydrateCall(i), "fetchLecture",
                                     LectureUrl(el.id, TRUE, FALSE), httpTimeout)
                 call == fetched.calls[HydrateCall(i)]
             IN  IF call.pc = "returned"
                 THEN [fetched EXCEPT !.contentData = ApplyLecture(@, i, call.result)]
                 ELSE fetched

\* a map that starts the fetch of the first lecture only
RECURSIVE MutHydrateMap(_, _, _)
MutHydrateMap(w, i, httpTimeout) ==
    IF i > Len(w.contentData.results) THEN w
    ELSE IF w.contentData.results[i]._class = "lecture"
    THEN HydrateSync(w, i, httpTimeout)
    ELSE MutHydrateMap(w, i + 1, httpTimeout)
RECURSIVE HydrateMap(_, _, _)
HydrateMap(w, i, httpTimeout) ==
    IF i > Len(w.contentData.results) THEN w
    ELSE HydrateMap(HydrateSync(w, i, httpTimeout), i + 1, httpTimeout)

\* the hydration fetches still awaited
Hydrating(w) == {i \in ItemIndices : w.calls[HydrateCall(i)].pc = "waiting"}

\* line 401: Promise.all over the hydration callbacks has resolved once no
\* fetch is left pending
JoinHydration(w) ==
    IF w.contPc = "hydrating" /\ Hydrating(w) = {} THEN Finish(w) ELSE w

\* lines 383-390: the placeholder chapter
MutRepairFirst(data) == data
RepairFirst(data) ==
    IF data.results[1]._class # "chapter"
    THEN [data EXCEPT !.results = <<Placeholder>> \o @, !.count = @ + 1]
    ELSE data

\* lines 379-402: after the retrieval
AfterFetch(w, args) ==
    LET seen == [w EXCEPT !.retrieved = w.contentData]
    IN  IF ~Truthy(w.contentData) \/ w.contentData.count = 0
        THEN Return(seen, JsNull)
        ELSE IF Len(w.contentData.results) = 0
        THEN Throw(seen, TypeError)
        ELSE LET repaired == [seen EXCEPT !.contentData = RepairFirst(@)]
             IN  IF w.loadContent
                 THEN JoinHydration(HydrateMap([repaired EXCEPT !.contPc = "hydrating"],
                                               1, args.httpTimeout))
                 ELSE Finish(repaired)

\* lines 355-359: the page is the collection, or its results are appended
MutAccumulate(data, resp) ==
    IF ~Truthy(data) THEN resp ELSE [data EXCEPT !.results = resp.results \o @]
Accumulate(data, resp) ==
    IF ~Truthy(data) THEN resp ELSE [data EXCEPT !.results = @ \o resp.results]

\* lines 353-369: the do-while loop, from the fetch of the current url
\* (StartPage) and from the arrival of a page (OnPage)
RECURSIVE StartPage(_, _)
RECURSIVE OnPage(_, _, _)
StartPage(w, args) ==
    LET fetched == FetchVia(w, MainCall, "page", w.contUrl, timeout)
        call == fetched.calls[MainCall]
    IN  IF call.pc = "returned"
        THEN OnPage(fetched, args, call.result)
        ELSE [fetched EXCEPT !.contPc = "paging"]
OnPage(w, args, resp) ==
    LET data == Accumulate(w.contentData, resp)
        url == IF Truthy(resp.next) THEN DecodeNext(resp.next) ELSE w.contUrl
    IN  IF resp.next \notin {JsNull, Undefined}
        THEN StartPage([w EXCEPT !.contentData = data, !.contUrl = url], args)
        ELSE AfterFetch([w EXCEPT !.contentData = data, !.loadContent = FALSE], args)

\* line 372: contentData = await this.fetchCourse(courseId, httpTimeout)
MutFallbackData(data, resp) == Accumulate(data, resp)
FallbackData(data, resp) == resp

\* lines 372-373, once fetchCourse has returned
OnFallback(w, args, resp) ==
    AfterFetch([w EXCEPT !.contentData = FallbackData(@, resp),
                         !.loadContent = (NormalContentType(args.contentType) # "less")],
               args)

\* lines 370-377: the catch around the loop
\* line 372, from the call of fetchCourse on
StartFallback(w, args) ==
    LET fetched == FetchVia(w, MainCall, "fetchCourse", FetchCourseUrl, args.httpTimeout)
        call == fetched.calls[MainCall]
    IN  IF call.pc = "returned"
        THEN OnFallback(fetched, args, call.result)
        ELSE [fetched EXCEPT !.contPc = "fallback"]

MutOnPageError(w, args, status) == StartFallback(w, args)
OnPageError(w, args, status) ==
    IF status = 503
    THEN StartFallback(w, args)
    ELSE Throw(w, w.calls[MainCall].error)

ContentInit ==
    /\ cache = <<>>
    /\ now = 0
    /\ timeout = DefaultTimeout
    /\ headerAuth = NoToken
    /\ calls = [c \in ContentCalls |-> [IdleCall EXCEPT !.url = Undefined]]
    /\ requests = <<>>
    /\ StreamsIdle
    /\ ListIdle
    /\ ContentIdle

\* fetchCourseContent(courseId, contentType, httpTimeout), lines 338-354
FetchCourseContent(contentType, httpTimeout) ==
    /\ contPc = "idle"
    /\ LET args == [contentType |-> contentType, httpTimeout |-> httpTimeout]
       IN  /\ contArgs' = args
           /\ SetWorld(StartPage([World EXCEPT
                 !.contUrl = FirstUrl(NormalContentType(contentType))], args))
    /\ UNCHANGED <<now, timeout, headerAuth>>
    /\ UNCHANGED <<streamVars, listVars>>

\* the items a page may still bring
Remaining == MaxItems - (IF Truthy(contentData) THEN Len(contentData.results) ELSE 0)

\* the request of the current page succeeds with a page of the curriculum
PageResolve(kinds, count, more) ==
    /\ contPc = "paging"
    /\ calls[MainCall].pc = "waiting"
    /\ Len(kinds) <= Remaining
    /\ more => contUrl.page < MaxPages
    /\ LET resp == [count |-> count,
                    next |-> IF more THEN NextLink(contUrl) ELSE JsNull,
                    results |-> MakeItems(kinds, 10 * contUrl.page)]
       IN  SetWorld(OnPage(WithNet(World, Resolved(Net, MainCall, resp)), contArgs, resp))
    /\ UNCHANGED <<now, timeout, headerAuth, contArgs>>
    /\ UNCHANGED <<streamVars, listVars>>

\* the request of the current page fails
PageReject(status) ==
    /\ contPc = "paging"
    /\ calls[MainCall].pc = "waiting"
    /\ SetWorld(OnPageError([WithNet(World, Rejected(Net, MainCall, AxiosError(status)))
                                EXCEPT !.pageStatus = status], contArgs, status))
    /\ UNCHANGED <<now, timeout, headerAuth, contArgs>>
    /\ UNCHANGED <<streamVars, listVars>>

\* the request of fetchCourse succeeds with the whole curriculum
FallbackResolve(kinds, count) ==
    /\ contPc = "fallback"
    /\ calls[MainCall].pc = "waiting"
    /\ LET resp == [count |-> count, next |-> JsNull, results |-> MakeItems(kinds, 10 * (MaxPages + 1))]
       IN  SetWorld(OnFallback(WithNet(World, Resolved(Net, MainCall, resp)), contArgs, resp))
    /\ UNCHANGED <<now, timeout, headerAuth, contArgs>>
    /\ UNCHANGED <<streamVars, listVars>>

\* the request of fetchCourse fails: the error leaves the catch block
FallbackReject(status) ==
    /\ contPc = "fallback"
    /\ calls[MainCall].pc = "waiting"
    /\ LET failed == WithNet(World, Rejected(Net, MainCall, AxiosError(status)))
       IN  SetWorld(Throw(failed, failed.calls[MainCall].error))
    /\ UNCHANGED <<now, timeout, headerAuth, contArgs>>
    /\ UNCHANGED <<streamVars, listVars>>

\* lines 395-397: the hydration fetch of item i succeeds
HydrateResolve(i, lecture) ==
    /\ calls[HydrateCall(i)].pc = "waiting"
    /\ LET fetched == WithNet(World, ResolvedIn(Net, HydrateCall(i), lecture, contPc))
       IN  SetWorld(JoinHydration([fetched EXCEPT
                                      !.contentData = ApplyLecture(@, i, lecture)]))
    /\ UNCHANGED <<now, timeout, headerAuth, contArgs>>
    /\ UNCHANGED <<streamVars, listVars>>

\* line 395: the hydration fetch of item i fails; Promise.all (line 401)
\* rejects with the first rejection, which leaves fetchCourseContent
HydrateReject(i, status) ==
    /\ calls[HydrateCall(i)].pc = "waiting"
    /\ LET failed == WithNet(World, Rejected(Net, HydrateCall(i), AxiosError(status)))
       IN  SetWorld(IF contPc = "hydrating" THEN Throw(failed, AxiosError(status))
                    ELSE failed)
    /\ UNCHANGED <<now, timeout, headerAuth, contArgs>>
    /\ UNCHANGED <<streamVars, listVars>>

\* lines 52-56: _convertToStreams of item i resolves
ConvertDone(i) ==
    /\ i \in DOMAIN prep
    /\ prep[i] = "convert"
    /\ SetWorld(JoinPrepare([World EXCEPT !.prep[i] = "converted",
                                          !.contentData = ApplyStreams(@, i)]))
    /\ UNCHANGED <<now, timeout, headerAuth, contArgs>>
    /\ UNCHANGED <<streamVars, listVars>>

\* the preparation of item i fails: lines 64-66, then Promise.all (line 73)
\* rejects with the first rejection and lines 75-77 rethrow it
MutPrepareFailed(w, i, error) ==
    LET failed == [w EXCEPT !.prep[i] = "failed",
                            !.calls = [c \in DOMAIN @ |->
                                          IF @[c].pc = "waiting"
                                          THEN [@[c] EXCEPT !.pc = "cancelled"]
                                          ELSE @[c]]]
    IN  IF w.contPc = "preparing"
        THEN Throw(failed, PrepareAllCatch(PrepareCatch(error)))
        ELSE failed
PrepareFailed(w, i, error) ==
    LET failed == [w EXCEPT !.prep[i] = "failed"]
    IN  IF w.contPc = "preparing"
        THEN Throw(failed, PrepareAllCatch(PrepareCatch(error)))
        ELSE failed

\* line 52: _convertToStreams of item i rejects
ConvertFail(i) ==
    /\ i \in DOMAIN prep
    /\ prep[i] = "convert"
    /\ SetWorld(PrepareFailed(World, i, ConvertCatch(_error("Error", "playlist"))))
    /\ UNCHANGED <<now, timeout, headerAuth, contArgs>>
    /\ UNCHANGED <<streamVars, listVars>>

\* lines 59-61: the lecture fetch of presentation item i succeeds
PresentResolve(i, lecture) ==
    /\ i \in DOMAIN prep
    /\ calls[PrepareCall(i)].pc = "waiting"
    /\ LET fetched == WithNet(World, ResolvedIn(Net, PrepareCall(i), lecture, contPc))
       IN  SetWorld(JoinPrepare([fetched EXCEPT !.prep[i] = "fetched",
                                                !.contentData = ApplyLecture(@, i, lecture)]))
    /\ UNCHANGED <<now, timeout, headerAuth, contArgs>>
    /\ UNCHANGED <<streamVars, listVars>>

\* line 59: the lecture fetch of presentation item i fails
PresentReject(i, status) ==
    /\ i \in DOMAIN prep
    /\ calls[PrepareCall(i)].pc = "waiting"
    /\ SetWorld(PrepareFailed(WithNet(World, Rejected(Net, PrepareCall(i), AxiosError(status))), i,
                              AxiosError(status)))
    /\ UNCHANGED <<now, timeout, headerAuth, contArgs>>
    /\ UNCHANGED <<streamVars, listVars>>

ContentNext ==
    \/ \E contentType \in ContentTypes, httpTimeout \in Timeouts :
          FetchCourseContent(contentType, httpTimeout)
    \/ \E kinds \in SeqsUpTo(ItemKinds("page"), MaxItems), count \in ContentCounts, more \in BOOLEAN :
          PageResolve(kinds, count, more)
    \/ \E status \in Statuses : PageReject(status)
    \/ \E kinds \in SeqsUpTo(ItemKinds("course"), MaxItems), count \in ContentCounts :
          FallbackResolve(kinds, count)
    \/ \E status \in Statuses : FallbackReject(status)
    \/ \E i \in ItemIndices, lecture \in LectureRecords("lecture") : HydrateResolve(i, lecture)
    \/ \E i \in ItemIndices, status \in Statuses : HydrateReject(i, status)
    \/ \E i \in ItemIndices : ConvertDone(i)
    \/ \E i \in ItemIndices : ConvertFail(i)
    \/ \E i \in ItemIndices, lecture \in LectureRecords("lecture-all") : PresentResolve(i, lecture)
    \/ \E i \in ItemIndices, status \in Statuses : PresentReject(i, status)

SpecContent == ContentInit /\ [][ContentNext]_vars

\* fetchCourseContent against a server that answers every request: the
\* chain of next links ends at page MaxPages at the latest, and every request
\* is eventually answered
PagingNext ==
    \/ \E contentType \in ContentTypes, httpTimeout \in Timeouts :
          FetchCourseContent(contentType, httpTimeout)
    \/ \E kinds \in SeqsUpTo(ItemKinds("page"), MaxItems), count \in ContentCounts, more \in BOOLEAN :
          PageResolve(kinds, count, more)
    \/ \E i \in ItemIndices : ConvertDone(i)
    \/ \E i \in ItemIndices, lecture \in LectureRecords("lecture-all") : PresentResolve(i, lecture)

\* a step of PagingNext is possible: the call has not been made, or an
\* answer it awaits is outstanding
Awaited ==
    \/ contPc = "idle"
    \/ contPc = "paging" /\ calls[MainCall].pc = "waiting"
    \/ \E i \in DOMAIN prep : prep[i] = "convert"
    \/ \E i \in DOMAIN prep : calls[PrepareCall(i)].pc = "waiting"

\* weak fairness of PagingNext, its enabling condition written as the state
\* predicate Awaited: what is awaited is eventually answered
EventuallyAnswered == []<>(~Awaited) \/ []<><<PagingNext>>_vars

SpecPaging == ContentInit /\ [][PagingNext]_vars /\ EventuallyAnswered

----------------------------------------------------------------------------
(* Properties of fetchCourseContent                                        *)

ReturnedCollection == contPc = "returned" /\ contResult # JsNull
CountOps(op) == Cardinality({k \in DOMAIN fetchLog : fetchLog[k].op = op})
Brief(el) == [id |-> el.id, _class |-> el._class]
IsVideo(el) ==
    /\ el._class = "lecture"
    /\ AssetOf(el) # Undefined
    /\ AssetTypeLower(AssetOf(el).asset_type) \in {"video", "videomashup"}

\* C2: fetchCourseContent ends in exactly one of null, a named error, or a
\* collection whose preparations have all completed, in which every item
\* that carried raw stream descriptors has them replaced by streams and no
\* video item is left with raw descriptors; and once the preparation of any
\* item has failed, the call has failed with EPREPARE_STREAMS_SOURCE and
\* has returned nothing, whatever the other items do before or after.
C2_AllOrNothing ==
    /\ contPc = "returned" =>
          /\ contError = NoError
          /\ \/ contResult = JsNull
             \/ /\ contResult = contentData
                /\ Len(prep) = Len(contResult.results)
                /\ \A i \in DOMAIN prep :
                      /\ prep[i] \in {"none", "converted", "fetched"}
                      /\ prep[i] = "converted" =>
                            /\ AssetOf(contResult.results[i]).streams
                            /\ ~AssetOf(contResult.results[i]).raw
                      /\ (prep[i] = "none" /\ IsVideo(contResult.results[i])) =>
                            ~AssetOf(contResult.results[i]).raw
    /\ contPc = "threw" =>
          /\ contResult = Undefined
          /\ contError # NoError
          /\ contError.name # ""
    /\ (\E i \in DOMAIN prep : prep[i] = "failed") =>
          /\ contPc = "threw"
          /\ contResult = Undefined
          /\ contError.name = "EPREPARE_STREAMS_SOURCE"

\* a collection is returned after a conversion and a presentation fetch
\* have both completed
C2_Witness ==
    /\ ReturnedCollection
    /\ \E i, j \in DOMAIN prep : prep[i] = "converted" /\ prep[j] = "fetched"

\* C3: once a page fetch has failed with HTTP 503, exactly one fetch of
\* fetchCourse has been made, no page is fetched after it, and the collection
\* retrieved and processed afterwards is the fallback response alone.
C3_FallbackOn503 ==
    pageStatus = 503 =>
        /\ CountOps("fetchCourse") = 1
        /\ Requested(requests, FetchCourseUrl) = 1
        /\ \A k, j \in DOMAIN fetchLog :
              (fetchLog[k].op = "fetchCourse" /\ j > k) => fetchLog[j].op # "page"
        /\ contPc # "paging"
        /\ calls[MainCall].pc = "returned" =>
              /\ retrieved = calls[MainCall].result
              /\ contPc \in {"hydrating", "preparing", "returned"} /\ Truthy(contentData) =>
                    \A i \in DOMAIN contentData.results :
                        \/ contentData.results[i] = Placeholder
                        \/ \E k \in DOMAIN retrieved.results :
                              Brief(contentData.results[i]) = Brief(retrieved.results[k])

\* the second page failed with 503 and a collection was returned
C3_Witness ==
    /\ pageStatus = 503
    /\ CountOps("page") = MaxPages
    /\ ReturnedCollection

\* C6: whenever the retrieved result sequence is empty or the reported count
\* is zero, fetchCourseContent has returned null, raised no error and made
\* no hydration or stream-resolution request.
C6_EmptyReturnsNull ==
    (Truthy(retrieved) /\ (Len(retrieved.results) = 0 \/ retrieved.count = 0)) =>
        /\ contPc = "returned"
        /\ contResult = JsNull
        /\ contError = NoError
        /\ CountOps("fetchLecture") = 0
        /\ prep = <<>>

\* C7: a returned collection starts with a chapter and counts its results;
\* it is the placeholder followed by the retrieved items in order when the
\* first retrieved item is not a chapter, and the retrieved items alone
\* when it is.
C7_StartsWithChapter ==
    ReturnedCollection =>
        LET r == contResult.results
            o == retrieved.results
        IN  /\ r[1]._class = "chapter"
            /\ contResult.count = Len(r)
            /\ IF o[1]._class # "chapter"
               THEN /\ r[1] = Placeholder
                    /\ Len(r) = Len(o) + 1
                    /\ \A k \in DOMAIN o : Brief(r[k + 1]) = Brief(o[k])
               ELSE /\ Len(r) = Len(o)
                    /\ \A k \in DOMAIN o : Brief(r[k]) = Brief(o[k])

\* a collection of two retrieved items, the first a lecture, is returned
C7_Witness ==
    /\ ReturnedCollection
    /\ Len(retrieved.results) = MaxItems
    /\ retrieved.results[1]._class = "lecture"
    /\ contResult.count = MaxItems + 1

\* C13: a page fetch that failed with a status other than 503 has made the
\* call fail with that error, with no fetchCourse request; a fetchCourse
\* request that failed, with 503 or not, has made the call fail with its
\* error, and nothing was fetched after it.
C13_OnlyPage503Intercepted ==
    /\ pageStatus \notin {0, 503} =>
          /\ contPc = "threw"
          /\ contError = calls[MainCall].failure
          /\ contError = AxiosError(pageStatus)
          /\ CountOps("fetchCourse") = 0
          /\ Requested(requests, FetchCourseUrl) = 0
          /\ fetchLog[Len(fetchLog)].op = "page"
    /\ (pageStatus = 503 /\ calls[MainCall].pc = "threw") =>
          /\ contPc = "threw"
          /\ contError = calls[MainCall].failure
          /\ contError.name = "AxiosError"
          /\ CountOps("fetchCourse") = 1
          /\ Requested(requests, FetchCourseUrl) = 1
          /\ fetchLog[Len(fetchLog)].op = "fetchCourse"

\* the second page failed with 503 and the fallback request with 503 again
C13_Witness ==
    /\ pageStatus = 503
    /\ CountOps("page") = MaxPages
    /\ calls[MainCall].pc = "threw"
    /\ contError = AxiosError(503)

\* the request of call c was answered after its join had failed, and the
\* response is in the cache
StoredAfterFailure(c) ==
    /\ calls[c].pc = "returned"
    /\ calls[c].joinAtEnd = "threw"
    /\ calls[c].issued = 1
    /\ calls[c].url \in DOMAIN cache
    /\ cache[calls[c].url].v = calls[c].response

PageUrl(k) == [FirstUrl(NormalContentType(contArgs.contentType)) EXCEPT !.page = k]

IsPageFetch(entry) == entry.op = "page"
PageFetches == SelectSeq(fetchLog, IsPageFetch)

\* the response the server gave for page k
Served(k) == cache[PageUrl(k)].v

\* the results of pages 1..n, concatenated in page order
RECURSIVE ServedResults(_)
ServedResults(n) == IF n = 0 THEN <<>> ELSE ServedResults(n - 1) \o Served(n).results

\* the pages are fetched in chain order, each once, and the loop ends at the
\* first page without a next link, with the concatenation of the results
PagesInOrder ==
    /\ \A k \in DOMAIN PageFetches :
          /\ PageFetches[k].url = PageUrl(k)
          /\ Requested(requests, PageUrl(k)) = 1
    /\ \A k \in DOMAIN fetchLog :
          (IsPageFetch(fetchLog[k]) /\ k > 1) => IsPageFetch(fetchLog[k - 1])
    /\ contPc = "paging" =>
          \A k \in 1..(Len(PageFetches) - 1) : Served(k).next = NextLink(PageUrl(k))
    /\ Truthy(retrieved) =>
          LET n == Len(PageFetches)
          IN  /\ n >= 1
              /\ Served(n).next = JsNull
              /\ \A k \in 1..(n - 1) : Served(k).next = NextLink(PageUrl(k))
              /\ retrieved.results = ServedResults(n)
              /\ retrieved.count = Served(1).count

\* C18: against a server with a finite chain of next links and no failing
\* request, the pages are requested one after the other in chain order, each
\* exactly once; the loop terminates; and the accumulated results are the
\* concatenation of the pages' results in page order.
C18_PaginationTerminates ==
    /\ []PagesInOrder
    /\ (contPc = "paging") ~> Truthy(retrieved)

\* two pages, each with one item, were fetched and the call returned
C18_Witness ==
    /\ ReturnedCollection
    /\ Len(PageFetches) = MaxPages
    /\ Len(Served(1).results) = 1
    /\ Len(Served(2).results) = 1
    /\ Len(retrieved.results) = 2

\* the lecture-detail fetches of the hydration (not those of a presentation)
HydrationFetches ==
    {k \in DOMAIN fetchLog : fetchLog[k].op = "fetchLecture" /\ ~fetchLog[k].url.allAssets}

\* the items of kind lecture of the collection
Lectures == {i \in DOMAIN contentData.results : contentData.results[i]._class = "lecture"}

\* the fallback was taken with a contentType other than "less", and gave a
\* collection that is not empty
HydrationDue ==
    /\ pageStatus = 503
    /\ NormalContentType(contArgs.contentType) # "less"
    /\ Truthy(retrieved)
    /\ retrieved.count # 0
    /\ retrieved.results # <<>>

\* C19: when the 503 fallback was taken with a contentType other than "less"
\* (and the collection is not empty), one lecture-detail fetch has been
\* issued for every item of kind lecture and for no other item, all of them
\* before any is answered; each answer overwrites the item's asset and
\* supplementary_assets; a failed one has failed the call. Otherwise no
\* lecture-detail fetch of the hydration is ever issued.
C19_HydrationOnFallback ==
    IF HydrationDue
    THEN /\ Cardinality(HydrationFetches) = Cardinality(Lectures)
         /\ {fetchLog[k].url : k \in HydrationFetches}
               = {LectureUrl(contentData.results[i].id, TRUE, FALSE) : i \in Lectures}
         /\ \A i \in ItemIndices : i \in Lectures <=> calls[HydrateCall(i)].pc # "idle"
         /\ \A i \in Lectures :
               /\ calls[HydrateCall(i)].httpTimeout = contArgs.httpTimeout
               /\ (calls[HydrateCall(i)].pc = "returned" /\ prep = <<>>) =>
                     /\ contentData.results[i].asset = calls[HydrateCall(i)].response.asset
                     /\ contentData.results[i].supplementary_assets
                           = calls[HydrateCall(i)].response.supplementary_assets
               /\ calls[HydrateCall(i)].pc = "threw" =>
                     /\ contPc = "threw"
                     /\ contError.name = "AxiosError"
                     /\ contResult = Undefined
         /\ contPc = "returned" => \A i \in Lectures : calls[HydrateCall(i)].pc = "returned"
    ELSE /\ HydrationFetches = {}
         /\ \A i \in ItemIndices : calls[HydrateCall(i)].pc = "idle"

\* two lectures are hydrated concurrently: one is answered and has its asset
\* overwritten while the other is still awaited
C19_Witness ==
    /\ HydrationDue
    /\ contPc = "hydrating"
    /\ Cardinality(Lectures) = 2
    /\ \E i, j \in Lectures :
          /\ calls[i].pc = "returned"
          /\ calls[j].pc = "waiting"
          /\ contentData.results[i].asset = Asset("Presentation", FALSE, "lecture")
          /\ retrieved.results[i - 1].asset = Asset("Video", TRUE, "course")

====
